---- MODULE Spec2Model ----
(***************************************************************************)
(* Helios / Meridian Browse: the gateway (MCP server) side of the relay.   *)
(* The model follows the server source (the revision with the security     *)
(* module): the extension-facing WebSocket server, the request correlator  *)
(* (sendToExtension, pendingRequests, per-request timeout timers) and the  *)
(* tool-call handler with its emergency-stop and rate-limit gate.  The     *)
(* second half models the two parties on the other side of the socket: the *)
(* native-messaging bridge (stdin decoder, relay queue, reconnection) and  *)
(* the extension's connection supervisor.                                  *)
(*                                                                         *)
(* Granularity: one action per callback of the Node event loop.  A tool    *)
(* call runs synchronously from its entry to its first await on a promise  *)
(* of sendToExtension (or on the wait timer of navigate_and_read), and the *)
(* continuation after that promise settles runs in the microtask queue of  *)
(* the callback that settled it, so it is folded into the settling action. *)
(***************************************************************************)
EXTENDS Integers, Sequences, FiniteSets, TLC

\* ------------------------------------------------------------------ bounds
MaxInv == 2            \* tool invocations issued by the client
MaxSock == 2           \* connections accepted over the server's lifetime
MaxId == 2             \* distinct values generateMessageId can return
MaxTime == 1           \* clock ticks the model lets Date.now() advance
MaxActionsPerMinute == 1   \* securityConfig.rateLimit.maxActionsPerMinute
MaxGateTime == 3       \* half-minute steps of the clock when the gate is studied
MaxRate == 2           \* largest maxActionsPerMinute a config file sets
MaxActionsPerSecond == 1   \* the per-second cap SECURITY.md documents
MaxPosts == 2          \* messages the extension posts to the bridge
MaxNotices == 3        \* status messages of the bridge the extension has yet to handle

\* ------------------------------------------------------- program constants
RateWindowMs == 60000  \* checkRateLimit: oneMinuteAgo = now - 60000
MaxExtAttempts == 20       \* the extension's CONFIG.maxReconnectAttempts
reconnectBaseDelay == 1000 \* the extension's CONFIG.reconnectBaseDelay
reconnectMaxDelay == 30000 \* the extension's CONFIG.reconnectMaxDelay
MaxBridgeAttempts == 10    \* the bridge's CONFIG.maxReconnectAttempts
reconnectDelay == 1000     \* the bridge's CONFIG.reconnectDelay

\* One clock tick, in ms: a little more than the rate window, so that a tick
\* takes every recorded timestamp out of the window.
TickMs == RateWindowMs + 1000
SecondMs == RateWindowMs \div 60
HalfMinuteMs == RateWindowMs \div 2

Inv == 1..MaxInv
Sock == 1..MaxSock
Ids == 1..MaxId

NotConnectedMsg == "Browser extension not connected"
\* Mutant: the timeout is reported with the text of the not-connected error.
TimeoutMsgReused == NotConnectedMsg

TimeoutMsg == "Request timed out after 30000ms"
UnknownErrorMsg == "Unknown error"
EmergencyMsg == "EMERGENCY STOP ACTIVE"
RateLimitMsg == "Rate limit exceeded"
StopEnabledMsg == "EMERGENCY STOP ENABLED"
StopDisabledMsg == "Emergency stop disabled"
StatusMsg == "Security Status"
ConfigMsg == "Current security config"
ConfigUpdatedMsg == "Security config updated"

\* Tools of the catalog the model distinguishes.  ping is read-only, click
\* is an ordinary rate-limited action, navigate_and_read sends two envelopes
\* with a wait in between, the last two are security tools.
Tools == {"ping", "click", "navigate_and_read", "emergency_stop", "security_status"}
ConfigTools == {"security_config"}
\* A name that is no case of the handler's switch.
UnknownTools == {"unknown_tool"}
UnknownToolMsg == "Unknown tool"
securityTools == {"security_status", "security_config", "emergency_stop", "audit_logs"}
readOnlyTools == {"ping", "tabs_list", "windows_list", "read_page", "screenshot"} \cup securityTools

\* A URL, as the pieces of its text: the scheme with its "://", the host
\* and the rest.  Host and rest are sequences of text fragments, cut so that
\* every list entry of the model is a run of whole fragments.
NoUrl == [scheme |-> "", host |-> <<>>, rest |-> <<>>]
GithubCom == <<"github", ".", "com">>
Hosts == {GithubCom,
          <<"api", ".">> \o GithubCom,
          <<"evil-">> \o GithubCom,
          GithubCom \o <<".", "evil", ".", "com">>,
          <<"example", ".", "com">>,
          <<"settings">>}
Rests == {<<>>, <<"/", "x">>, <<"/?next=", "chrome://", "settings">>,
          <<"/?ref=">> \o GithubCom}
Urls == [scheme : {"https://", "chrome://"}, host : Hosts, rest : Rests]
HomeUrl == [scheme |-> "https://", host |-> GithubCom, rest |-> <<>>]
SettingsUrl == [scheme |-> "chrome://", host |-> <<"settings">>, rest |-> <<>>]

\* A tool call: the tool name, for emergency_stop its stop argument, for
\* navigate_and_read its url argument, for security_config its update
\* argument: no element if the argument is absent, else the partial config.
NoUpdate == <<>>
Calls == [name : Tools \ {"emergency_stop", "navigate_and_read"}, stop : {FALSE}, url : {NoUrl},
          update : {NoUpdate}]
           \cup [name : {"navigate_and_read"}, stop : {FALSE}, url : {HomeUrl}, update : {NoUpdate}]
           \cup [name : {"emergency_stop"}, stop : BOOLEAN, url : {NoUrl}, update : {NoUpdate}]
NoCall == [name |-> "none", stop |-> FALSE, url |-> NoUrl, update |-> NoUpdate]

\* The calls of a client that only uses tools relayed to the extension.
RelayCalls == {c \in Calls : c.name \in {"ping", "navigate_and_read"}}

\* The calls of a client that navigates, to a page of the web or of the browser.
UrlCalls == [name : {"navigate_and_read"}, stop : {FALSE}, url : {HomeUrl, SettingsUrl},
             update : {NoUpdate}]

\* The calls that exercise the gate: a rate-limited tool, a read-only tool
\* and a security tool.
GateCalls == {c \in Calls : c.name \in {"click", "ping", "security_status"}}

\* The calls whose end the audit log is studied for: a rate-limited tool, a
\* read-only tool, a name the gateway does not know, and emergency_stop(true).
AuditCalls == {c \in Calls : c.name \in {"click", "ping"} \/ (c.name = "emergency_stop" /\ c.stop)}
                \cup [name : UnknownTools, stop : {FALSE}, url : {NoUrl}, update : {NoUpdate}]

\* The updates a client sends with security_config: each names one field.
Updates == {[domains |-> [allowlist |-> <<GithubCom>>]],
            [domains |-> [blocklist |-> <<>>]],
            [rateLimit |-> [maxActionsPerMinute |-> MaxRate]],
            [emergencyStop |-> TRUE]}

\* The calls of a client that views and updates the config.
ConfigCalls == [name : ConfigTools, stop : {FALSE}, url : {NoUrl},
                update : {NoUpdate} \cup {<<u>> : u \in Updates}]

\* The upgrade request of an incoming connection: the token of its query
\* string and its Origin header.
Handshakes == [token : {"authToken", "none"},
               origin : {"chrome-extension://", "https://evil.com"}]

\* What the extension side can put on a socket: a response envelope with
\* any id and either data or an error string, or bytes that are not JSON.
Data == {"d1"}
Errs == {"boom"}
Msgs == [kind : {"json"}, id : Ids, success : {TRUE}, val : Data]
          \cup [kind : {"json"}, id : Ids, success : {FALSE}, val : Errs]
          \cup [kind : {"garbage"}, id : {0}, success : {FALSE}, val : {""}]

NoResult == [isError |-> FALSE, text |-> "none"]

\* DEFAULT_SECURITY_CONFIG.domains
DefaultDomains == [allowlist |-> <<>>,
                   blocklist |-> << <<"chrome://">>, <<"chrome-extension://">>, <<"file://">> >>]
NoCheck == [allowed |-> FALSE, reason |-> "not called"]

\* The two legs that reconnect on their own: the extension to the bridge
\* (native messaging port) and the bridge to the gateway (WebSocket).
Legs == {"extension", "bridge"}

\* Messages the extension posts to the bridge: JSON values, here numbers
\* whose texts differ in length.
Posts == {1, 22}

VARIABLES
  extensionSocket,   \* 0 for null, else the accepted socket it refers to
  readyState,        \* per socket: NONE (not yet accepted), OPEN, CLOSING, CLOSED
  pendingRequests,   \* id -> invocation whose {resolve, reject, timeout} is stored, 0 if absent
  timer,             \* per invocation: its request's timeout timer is armed
  promise,           \* per invocation: state of the promise of its current sendToExtension call
  settleCalls,       \* per invocation: resolve/reject calls made on that promise
  reqId,             \* per invocation: the id its armed timeout callback holds, 0 if none
  pc,                \* per invocation: idle, await, wait, await2, mkdir, write, done
  call,              \* per invocation: the tool call it carries
  result,            \* per invocation: the tool result returned to the client
  outbox,            \* per invocation: the types of the envelopes handed to socket.send
  emergencyStop,     \* securityConfig.emergencyStop
  now,               \* Date.now()
  actionTimestamps,  \* the rate limiter's window
  audit,             \* per invocation: the audit log entries it appended
  startTime,         \* per invocation: Date.now() at the entry of its handler
  maxActionsPerMinute,  \* securityConfig.rateLimit.maxActionsPerMinute
  domains,           \* securityConfig.domains: allowlist and blocklist
  url,               \* the argument isDomainAllowed is applied to
  domainCheck,       \* what isDomainAllowed returned for it
  configFile,        \* the config that CONFIG_FILE holds
  content,           \* per invocation: the config its fs.writeFile call was given
  load               \* loadSecurityConfig: where it is, and the config its readFile returned

gatewayVars == <<extensionSocket, readyState, pendingRequests, timer, promise,
                 settleCalls, reqId, pc, call, result, outbox, emergencyStop, now,
                 actionTimestamps, audit, startTime, maxActionsPerMinute, domains,
                 url, domainCheck, configFile, content, load>>

sockVars == <<extensionSocket, readyState>>
corrVars == <<pendingRequests, timer, promise, settleCalls, reqId, outbox>>
gateVars == <<emergencyStop, actionTimestamps>>
configVars == <<maxActionsPerMinute, domains>>
domainVars == <<url, domainCheck>>
fileVars == <<configFile, content, load>>

\* securityConfig: the fields the model follows, and rateLimit.enabled, which
\* no call of the model changes.
Config(stop, rate, doms) ==
  [emergencyStop |-> stop,
   rateLimit |-> [enabled |-> TRUE, maxActionsPerMinute |-> rate],
   domains |-> doms]
securityConfig == Config(emergencyStop, maxActionsPerMinute, domains)
NoContent == <<>>

\* loadSecurityConfig before its readFile has returned, and after it has ended.
Loading == [pc |-> "read", loaded |-> NoContent]
Loaded == [pc |-> "done", loaded |-> NoContent]

VARIABLES
  stdin,             \* bridge: bytes the extension has written that no 'data' event has delivered yet
  posted,            \* the messages the extension has posted, in order
  lengthBuffer,      \* bridge: readNativeMessage's lengthBuffer
  messageBuffer,     \* bridge: readNativeMessage's messageBuffer
  expectedLength,    \* bridge: readNativeMessage's expectedLength, -1 while the prefix is incomplete
  received,          \* bridge: the messages handleExtensionMessages got from readNativeMessage
  ws,                \* bridge: null, or the readyState of the socket ws refers to
  messageQueue,      \* bridge: messageQueue
  sent,              \* bridge: the messages handed to ws.send, in order
  reconnectAttempts, \* per leg: reconnectAttempts
  reconnectTimer,    \* per leg: a reconnect timer is pending
  port,              \* extension: port is not null
  connectionStatus,  \* extension: connectionStatus
  delay,             \* per leg: the delay of the reconnect timer armed last, 0 if none was
  retries,           \* per leg: connections its reconnect timer has started since the last successful one
  wire,              \* the ids of the envelopes the gateway has sent that the bridge has not received yet
  toExtension,       \* the ids of the envelopes the bridge has written that the extension has not handled yet
  arrived,           \* how many of the messages in sent the gateway's socket has delivered
  notices,           \* the types of the status messages the bridge has written that the extension has not handled yet
  requests,          \* extension: the request envelopes port.onMessage was called with, in order
  handling,          \* extension: the requests, by position, whose handleMessage call has not returned
  openPorts,         \* extension: native-messaging ports opened and not yet disconnected
  liveSockets        \* bridge: WebSockets created and not yet closed

decoderVars == <<stdin, posted, lengthBuffer, messageBuffer, expectedLength, received>>
relayVars == <<ws, messageQueue, sent>>
superVars == <<reconnectAttempts, reconnectTimer>>
extVars == <<port, connectionStatus>>
backoffVars == <<delay, retries>>
linkVars == <<wire, toExtension, arrived, notices>>
handlerVars == <<requests, handling>>
connVars == <<openPorts, liveSockets>>
peerVars == <<decoderVars, relayVars, superVars, extVars, backoffVars, linkVars, handlerVars,
              connVars>>

vars == <<gatewayVars, peerVars>>

\* The bridge and the extension once their scripts have run to the end:
\* main() has called connectToServer(), the service worker has called connect().
PeerInit ==
  /\ stdin = <<>>
  /\ posted = <<>>
  /\ lengthBuffer = <<>>
  /\ messageBuffer = <<>>
  /\ expectedLength = -1
  /\ received = <<>>
  /\ ws = "CONNECTING"
  /\ messageQueue = <<>>
  /\ sent = <<>>
  /\ reconnectAttempts = [l \in Legs |-> 0]
  /\ reconnectTimer = [l \in Legs |-> FALSE]
  /\ port = TRUE
  /\ connectionStatus = "connecting"
  /\ delay = [l \in Legs |-> 0]
  /\ retries = [l \in Legs |-> 0]
  /\ wire = <<>>
  /\ toExtension = <<>>
  /\ arrived = 0
  /\ notices = <<>>
  /\ requests = <<>>
  /\ handling = {}
  /\ openPorts = 1
  /\ liveSockets = 1

\* The gateway after main() has created its servers, whatever the config.
Started ==
  /\ extensionSocket = 0
  /\ readyState = [s \in Sock |-> "NONE"]
  /\ pendingRequests = [x \in Ids |-> 0]
  /\ timer = [i \in Inv |-> FALSE]
  /\ promise = [i \in Inv |-> "none"]
  /\ settleCalls = [i \in Inv |-> 0]
  /\ reqId = [i \in Inv |-> 0]
  /\ pc = [i \in Inv |-> "idle"]
  /\ call = [i \in Inv |-> NoCall]
  /\ result = [i \in Inv |-> NoResult]
  /\ outbox = [i \in Inv |-> <<>>]
  /\ emergencyStop \in BOOLEAN    \* as loaded from the config file at startup
  /\ now = 0
  /\ actionTimestamps = <<>>
  /\ audit = [i \in Inv |-> <<>>]
  /\ startTime = [i \in Inv |-> 0]
  /\ content = [i \in Inv |-> NoContent]
  /\ load = Loaded
  /\ PeerInit

Init ==
  /\ Started
  /\ maxActionsPerMinute = MaxActionsPerMinute
  /\ domains = DefaultDomains
  /\ url = NoUrl
  /\ domainCheck = NoCheck
  /\ configFile = securityConfig

\* The same with the rate of the config file left open.
GateInit ==
  /\ Started
  /\ maxActionsPerMinute \in 1..MaxRate
  /\ domains = DefaultDomains
  /\ url = NoUrl
  /\ domainCheck = NoCheck
  /\ configFile = securityConfig

\* ------------------------------------------------------ security module
\* Mutant: the gate reads a flag that is never set.
isEmergencyStoppedNever == FALSE

isEmergencyStopped == emergencyStop

RECURSIVE RemoveOld(_, _)
\* while (actionTimestamps.length > 0 && actionTimestamps[0] < oneMinuteAgo) shift()
RemoveOld(ts, oneMinuteAgo) ==
  IF ts # <<>> /\ Head(ts) < oneMinuteAgo
    THEN RemoveOld(Tail(ts), oneMinuteAgo)
    ELSE ts

\* Mutant: the limiter refuses one call too late.
checkRateLimitLate(ts, t) ==
  LET kept == RemoveOld(ts, t - RateWindowMs)
      remaining == maxActionsPerMinute - Len(kept)
  IN IF remaining < 0
       THEN [allowed |-> FALSE, remaining |-> 0, ts |-> kept]
       ELSE [allowed |-> TRUE, remaining |-> remaining - 1, ts |-> Append(kept, t)]

\* Mutant: a refused call is recorded in the window too.
checkRateLimitCounting(ts, t) ==
  LET kept == RemoveOld(ts, t - RateWindowMs)
      remaining == maxActionsPerMinute - Len(kept)
  IN IF remaining <= 0
       THEN [allowed |-> FALSE, remaining |-> 0, ts |-> Append(kept, t)]
       ELSE [allowed |-> TRUE, remaining |-> remaining - 1, ts |-> Append(kept, t)]

\* checkRateLimit with rateLimit.enabled = true (the default): the verdict
\* and the window it leaves behind.
checkRateLimit(ts, t) ==
  LET kept == RemoveOld(ts, t - RateWindowMs)
      remaining == maxActionsPerMinute - Len(kept)
  IN IF remaining <= 0
       THEN [allowed |-> FALSE, remaining |-> 0, ts |-> kept]
       ELSE [allowed |-> TRUE, remaining |-> remaining - 1, ts |-> Append(kept, t)]

\* The text of a URL, fragment by fragment.
Text(u) == <<u.scheme>> \o u.host \o u.rest

\* String.prototype.startsWith and String.prototype.includes
startsWith(text, e) == Len(e) <= Len(text) /\ SubSeq(text, 1, Len(e)) = e
includes(text, e) ==
  \E k \in 1..(Len(text) - Len(e) + 1) : SubSeq(text, k, k + Len(e) - 1) = e

\* isDomainAllowed(url) under securityConfig.domains = d
isDomainAllowed(u, d) ==
  IF \E k \in 1..Len(d.blocklist) :
        startsWith(Text(u), d.blocklist[k]) \/ includes(Text(u), d.blocklist[k])
    THEN [allowed |-> FALSE, reason |-> "Domain blocked"]
  ELSE IF Len(d.allowlist) = 0
    THEN [allowed |-> TRUE, reason |-> ""]
  ELSE IF \E k \in 1..Len(d.allowlist) : includes(Text(u), d.allowlist[k])
    THEN [allowed |-> TRUE, reason |-> ""]
  ELSE [allowed |-> FALSE, reason |-> "Domain not in allowlist"]

\* The domain lists a config file can hold.
DomainConfigs == [allowlist : {<<>>, <<GithubCom>>},
                  blocklist : {<<>>, << <<"chrome://">> >>, DefaultDomains.blocklist}]

\* isDomainAllowed is called on url.
CheckDomain ==
  /\ domainCheck = NoCheck
  /\ domainCheck' = isDomainAllowed(url, domains)
  /\ UNCHANGED <<sockVars, corrVars, pc, call, result, gateVars, now, audit, startTime,
                  configVars, fileVars, url, peerVars>>

\* The arguments of a call, as request.params.arguments carries them.
Args(c) == [stop |-> c.stop, url |-> c.url, update |-> c.update]

\* The entry auditLog appends, less its timestamp.
AuditEntry(action, args, res, err) ==
  [action |-> action, args |-> args, result |-> res, error |-> err]

\* --------------------------------------------------- request correlator
\* Mutant: the guard tests the reference only, not its readyState.
ConnectedAnyState == extensionSocket # 0

\* sendToExtension's guard: a socket reference whose readyState is OPEN.
Connected == extensionSocket # 0 /\ readyState[extensionSocket] = "OPEN"

\* The ids some request still holds: in an entry of pendingRequests or in
\* the closure of its armed timer.
IdsInUse == {x \in Ids : pendingRequests[x] # 0} \cup {reqId[i] : i \in {j \in Inv : timer[j]}}

\* generateMessageId: a timestamp and seven base-36 digits of Math.random();
\* nothing in it depends on pendingRequests, so any id may come back, one in
\* use included.  Ids that are not in use are interchangeable: the first of
\* them stands for all.
generateMessageId ==
  IdsInUse \cup {x \in Ids \ IdsInUse : \A y \in Ids \ IdsInUse : x <= y}

\* resolve()/reject() of a promise: the first call settles it, later calls
\* leave it as it is.
SettlePromise(p, st) ==
  IF p = "pending" THEN st ELSE p

\* Mutant: the promise body forgets to arm the timeout.
RegisterNoTimer(i, x, type) ==
  /\ timer' = timer
  /\ pendingRequests' = [pendingRequests EXCEPT ![x] = i]
  /\ promise' = [promise EXCEPT ![i] = "pending"]
  /\ settleCalls' = [settleCalls EXCEPT ![i] = 0]
  /\ reqId' = [reqId EXCEPT ![i] = x]
  /\ outbox' = [outbox EXCEPT ![i] = Append(outbox[i], type)]

\* The promise body of sendToExtension: arm the timer, store the entry under
\* the id (Map.set: replaces whatever was stored there), send the envelope.
Register(i, x, type) ==
  /\ timer' = [timer EXCEPT ![i] = TRUE]
  /\ pendingRequests' = [pendingRequests EXCEPT ![x] = i]
  /\ promise' = [promise EXCEPT ![i] = "pending"]
  /\ settleCalls' = [settleCalls EXCEPT ![i] = 0]
  /\ reqId' = [reqId EXCEPT ![i] = x]
  /\ outbox' = [outbox EXCEPT ![i] = Append(outbox[i], type)]

\* ------------------------------------------------------ tool-call handler
Finish(i, res, entries) ==
  /\ pc' = [pc EXCEPT ![i] = "done"]
  /\ result' = [result EXCEPT ![i] = res]
  /\ audit' = [audit EXCEPT ![i] = audit[i] \o entries]

ErrorResult(text) == [isError |-> TRUE, text |-> text]
OkResult(text) == [isError |-> FALSE, text |-> text]

\* Mutant: the catch block returns the error and logs nothing.
CaughtSilently(i, c, message) ==
  Finish(i, ErrorResult(message), <<>>)

\* The catch block of the handler: one audit entry, an error result.
Caught(i, c, message) ==
  Finish(i, ErrorResult(message), <<AuditEntry(c.name, Args(c), "error", message)>>)

\* await sendToExtension(type, ...) reached from the handler of call i.
SendOrThrow(i, c, type, nextpc) ==
  IF Connected
    THEN /\ \E x \in generateMessageId : Register(i, x, type)
         /\ pc' = [pc EXCEPT ![i] = nextpc]
         /\ UNCHANGED <<result, audit>>
    ELSE /\ Caught(i, c, NotConnectedMsg)
         /\ UNCHANGED corrVars

\* What the handler does once the promise it awaits has settled.
Continue(i, st, v) ==
  IF st = "rejected"
    THEN Caught(i, call[i], v)
    ELSE IF call[i].name = "navigate_and_read" /\ pc[i] = "await"
      THEN /\ pc' = [pc EXCEPT ![i] = "wait"]
           /\ UNCHANGED <<result, audit>>
      ELSE Finish(i, OkResult(v), <<>>)

\* resolve or reject invoked for the request of invocation i.
Settle(i, st, v) ==
  /\ promise' = [promise EXCEPT ![i] = SettlePromise(promise[i], st)]
  /\ settleCalls' = [settleCalls EXCEPT ![i] = settleCalls[i] + 1]
  /\ reqId' = [reqId EXCEPT ![i] = 0]
  /\ IF promise[i] = "pending"
       THEN Continue(i, st, v)
       ELSE UNCHANGED <<pc, result, audit>>

\* { ...a, ...b }: the fields of a, replaced or joined by those of b
Spread(a, b) ==
  [k \in DOMAIN a \cup DOMAIN b |-> IF k \in DOMAIN b THEN b[k] ELSE a[k]]

\* update.rateLimit and the like: undefined (nothing to spread) if absent
Nested(u, k) == IF k \in DOMAIN u THEN u[k] ELSE <<>>

\* The merge of security_config: the update over the config, then each
\* nested object of the config with the update's fields over its own.
Merge(cfg, u) ==
  Spread(Spread(cfg, u),
         [rateLimit |-> Spread(cfg.rateLimit, Nested(u, "rateLimit")),
          domains |-> Spread(cfg.domains, Nested(u, "domains"))])

\* server.setRequestHandler(CallToolRequestSchema, ...) up to its first await.
HandleCall(i, c) ==
  /\ pc[i] = "idle"
  /\ IF i = 1 THEN TRUE ELSE pc[i - 1] # "idle"
  /\ call' = [call EXCEPT ![i] = c]
  /\ startTime' = [startTime EXCEPT ![i] = now]
  /\ UNCHANGED <<sockVars, now, domainVars, content, load>>
  /\ LET rateCheck == checkRateLimit(actionTimestamps, now) IN
     IF c.name \notin securityTools /\ isEmergencyStopped
       THEN /\ Finish(i, ErrorResult(EmergencyMsg),
                      <<AuditEntry(c.name, Args(c), "blocked", "Emergency stop active")>>)
            /\ UNCHANGED <<corrVars, gateVars, configVars, configFile>>
     ELSE IF c.name \notin readOnlyTools /\ ~rateCheck.allowed
       THEN /\ actionTimestamps' = rateCheck.ts
            /\ Finish(i, ErrorResult(RateLimitMsg),
                      <<AuditEntry(c.name, Args(c), "blocked", "Rate limit exceeded")>>)
            /\ UNCHANGED <<corrVars, emergencyStop, configVars, configFile>>
     ELSE CASE c.name = "ping" ->
                 /\ SendOrThrow(i, c, "ping", "await")
                 /\ UNCHANGED <<gateVars, configVars, configFile>>
            [] c.name = "click" ->
                 /\ actionTimestamps' = rateCheck.ts
                 /\ SendOrThrow(i, c, "click", "await")
                 /\ UNCHANGED <<emergencyStop, configVars, configFile>>
            [] c.name = "navigate_and_read" ->
                 /\ actionTimestamps' = rateCheck.ts
                 /\ SendOrThrow(i, c, "navigate", "await")
                 /\ UNCHANGED <<emergencyStop, configVars, configFile>>
            [] c.name = "emergency_stop" ->
                 \* setEmergencyStop: set the flag, save, log
                 /\ emergencyStop' = c.stop
                 /\ configFile' = Config(c.stop, maxActionsPerMinute, domains)
                 /\ Finish(i, OkResult(IF c.stop THEN StopEnabledMsg ELSE StopDisabledMsg),
                           <<AuditEntry("emergency_stop", [stopped |-> c.stop], "success", "")>>)
                 /\ UNCHANGED <<corrVars, actionTimestamps, configVars>>
            [] c.name = "security_status" ->
                 \* calls checkRateLimit() to report the remaining capacity
                 /\ actionTimestamps' = rateCheck.ts
                 /\ Finish(i, OkResult(StatusMsg), <<>>)
                 /\ UNCHANGED <<corrVars, emergencyStop, configVars, configFile>>
            [] c.name \in UnknownTools ->
                 \* default: the name is reported, nothing is logged
                 /\ actionTimestamps' = rateCheck.ts
                 /\ Finish(i, ErrorResult(UnknownToolMsg), <<>>)
                 /\ UNCHANGED <<corrVars, emergencyStop, configVars, configFile>>
            [] c.name = "security_config" ->
                 IF c.update = NoUpdate
                   THEN /\ Finish(i, OkResult(ConfigMsg), <<>>)
                        /\ UNCHANGED <<corrVars, gateVars, configVars, configFile>>
                   ELSE \* the merged config is assigned; saveSecurityConfig
                        \* waits for ensureDirs
                        LET merged == Merge(securityConfig, c.update[1])
                        IN /\ emergencyStop' = merged.emergencyStop
                           /\ maxActionsPerMinute' = merged.rateLimit.maxActionsPerMinute
                           /\ domains' = merged.domains
                           /\ pc' = [pc EXCEPT ![i] = "mkdir"]
                           /\ UNCHANGED <<corrVars, actionTimestamps, result, audit,
                                           configFile>>

\* The same with the receiver of the envelope left out of the picture.
CallTool(i, c) ==
  /\ HandleCall(i, c)
  /\ UNCHANGED peerVars

\* saveSecurityConfig of a security_config call: the directories exist, the
\* config as it is now is turned into text and handed to fs.writeFile.
DirsMade(i) ==
  /\ pc[i] = "mkdir"
  /\ content' = [content EXCEPT ![i] = <<securityConfig>>]
  /\ pc' = [pc EXCEPT ![i] = "write"]
  /\ UNCHANGED <<sockVars, corrVars, call, result, gateVars, now, audit, startTime,
                  configVars, configFile, load, domainVars, peerVars>>

\* The write of a security_config call has ended: the file holds what the
\* call wrote (writes in flight together end in any order), the audit entry
\* is appended and the call returns the config.
WriteDone(i) ==
  /\ pc[i] = "write"
  /\ configFile' = content[i][1]
  /\ content' = [content EXCEPT ![i] = NoContent]
  /\ Finish(i, OkResult(ConfigUpdatedMsg),
            <<AuditEntry("security_config", call[i].update[1], "success", "")>>)
  /\ UNCHANGED <<sockVars, corrVars, call, gateVars, now, startTime, configVars,
                  load, domainVars, peerVars>>

\* navigate_and_read: the wait timer fires and the handler sends read_page.
WaitDone(i) ==
  /\ pc[i] = "wait"
  /\ SendOrThrow(i, call[i], "read_page", "await2")
  /\ UNCHANGED <<sockVars, call, gateVars, now, startTime, configVars, fileVars, domainVars, peerVars>>

\* The setTimeout callback of sendToExtension for the request of i.
TimeoutFires(i) ==
  /\ timer[i]
  /\ timer' = [timer EXCEPT ![i] = FALSE]
  /\ pendingRequests' = [pendingRequests EXCEPT ![reqId[i]] = 0]
  /\ Settle(i, "rejected", TimeoutMsg)
  /\ UNCHANGED <<sockVars, outbox, call, gateVars, now, startTime, configVars, fileVars, domainVars, peerVars>>

\* ------------------------------------------------------ WebSocket server
\* Mutant: the message handler leaves the timer armed.
ClearTimeoutSkipped(t, i) == t

\* clearTimeout(pending.timeout) in the socket's message handler.
ClearTimeout(t, i) == [t EXCEPT ![i] = FALSE]

\* Mutant: responses are matched in arrival order, against the lowest pending id.
PendingForOldest(id) ==
  IF \E x \in Ids : pendingRequests[x] # 0
    THEN pendingRequests[CHOOSE x \in Ids :
           pendingRequests[x] # 0 /\ \A y \in Ids : pendingRequests[y] # 0 => x <= y]
    ELSE 0

\* Mutant: a response with an unknown id falls back to some pending entry.
PendingForOrAny(id) ==
  IF pendingRequests[id] # 0 THEN pendingRequests[id]
  ELSE IF \E x \in Ids : pendingRequests[x] # 0
    THEN pendingRequests[CHOOSE x \in Ids : pendingRequests[x] # 0]
    ELSE 0

\* The entry a response with this id finds: pendingRequests.get(id).
PendingFor(id) == pendingRequests[id]

\* socket.on('message'): a message m from the extension side arrives on
\* socket s, which has not closed yet, and the handler of s runs on it.
OnMessage(s, m) ==
  /\ readyState[s] \in {"OPEN", "CLOSING"}
  /\ UNCHANGED <<sockVars, outbox, call, gateVars, now, startTime, configVars, fileVars, domainVars>>
  /\ LET i == IF m.kind = "json" THEN PendingFor(m.id) ELSE 0
     IN IF i = 0
          THEN UNCHANGED <<pendingRequests, timer, promise, settleCalls, reqId, pc, result, audit>>
          ELSE /\ timer' = ClearTimeout(timer, i)
               /\ pendingRequests' = [pendingRequests EXCEPT ![m.id] = 0]
               /\ IF m.success
                    THEN Settle(i, "fulfilled", m.val)
                    ELSE Settle(i, "rejected", IF m.val # "" THEN m.val ELSE UnknownErrorMsg)

\* The same with the sender of m left out of the picture.
SocketMessage(s, m) ==
  /\ OnMessage(s, m)
  /\ UNCHANGED peerVars

\* The sockets whose handler can still be handed a message.  Every socket
\* carries the same handler, which does not look at the socket it runs on,
\* so the first of them stands for all.
Receiving == {s \in Sock : readyState[s] \in {"OPEN", "CLOSING"}}
Receiver == {s \in Receiving : \A t \in Receiving : s <= t}

\* Mutant: the connection handler replaces the reference without closing.
ClosePreviousSkipped(rs) == rs

\* The previous socket's state after the connection handler has looked at it:
\* if (extensionSocket && extensionSocket.readyState === OPEN) extensionSocket.close()
ClosePrevious(rs) ==
  IF extensionSocket # 0 /\ rs[extensionSocket] = "OPEN"
    THEN [rs EXCEPT ![extensionSocket] = "CLOSING"]
    ELSE rs

\* wss.on('connection', (socket) => ...): a new socket s has completed its
\* handshake.  The server is created with a port and nothing else, and the
\* handler takes the socket only: the upgrade request req is never looked at.
Connection(s, req) ==
  /\ readyState[s] = "NONE"
  /\ IF s = 1 THEN TRUE ELSE readyState[s - 1] # "NONE"
  /\ readyState' = [ClosePrevious(readyState) EXCEPT ![s] = "OPEN"]
  /\ extensionSocket' = s
  /\ UNCHANGED <<corrVars, pc, call, result, gateVars, now, audit, startTime,
                  configVars, fileVars, domainVars, peerVars>>

\* The peer's close frame arrives: the socket is CLOSING until its TCP
\* connection has ended; no handler of the gateway runs.
CloseFrame(s) ==
  /\ readyState[s] = "OPEN"
  /\ readyState' = [readyState EXCEPT ![s] = "CLOSING"]
  /\ UNCHANGED <<extensionSocket, corrVars, pc, call, result, gateVars, now, audit,
                  startTime, configVars, fileVars, domainVars, peerVars>>

\* Mutant: the close handler clears the reference whichever socket closed.
AfterCloseAlways(s) == 0

\* The reference the close handler of socket s leaves behind.
AfterClose(s) == IF extensionSocket = s THEN 0 ELSE extensionSocket

\* socket.on('close'): the connection of s has ended.
SocketClose(s) ==
  /\ readyState[s] \in {"OPEN", "CLOSING"}
  /\ readyState' = [readyState EXCEPT ![s] = "CLOSED"]
  /\ extensionSocket' = AfterClose(s)
  /\ UNCHANGED <<corrVars, pc, call, result, gateVars, now, audit, startTime,
                  configVars, fileVars, domainVars, peerVars>>

\* ------------------------------------------------------------ the bridge
\* Buffer.writeUInt32LE and Buffer.readUInt32LE
writeUInt32LE(n) ==
  <<n % 256, (n \div 256) % 256, (n \div 65536) % 256, (n \div 16777216) % 256>>

\* Mutant: the length prefix is read most significant byte first.
readUInt32BE(b) == 16777216 * b[1] + 65536 * b[2] + 256 * b[3] + b[4]

readUInt32LE(b) == b[1] + 256 * b[2] + 65536 * b[3] + 16777216 * b[4]

\* A native-messaging frame: the length of the JSON text, then the text.
Frame(body) == writeUInt32LE(Len(body)) \o body

\* JSON.stringify of a number: its decimal digits, as bytes.
RECURSIVE JSONstringify(_)
JSONstringify(n) ==
  IF n < 10 THEN <<48 + n>> ELSE JSONstringify(n \div 10) \o <<48 + (n % 10)>>

\* Mutant: JSON.parse accepts any text that is not empty.
IsJsonLenient(body) == body # <<>>

\* JSON.parse succeeds on the text of a number: digits only, no leading zero.
IsJson(body) ==
  /\ body # <<>>
  /\ \A k \in 1..Len(body) : body[k] \in 48..57
  /\ Len(body) > 1 => body[1] # 48

\* JSON.parse of such a text
RECURSIVE JSONparse(_)
JSONparse(body) ==
  IF body = <<>> THEN 0
  ELSE 10 * JSONparse(SubSeq(body, 1, Len(body) - 1)) + (body[Len(body)] - 48)

\* writeNativeMessage(message): the bytes it writes to stdout, the length of
\* the JSON text first.
writeNativeMessage(message) ==
  LET json == JSONstringify(message)
  IN writeUInt32LE(Len(json)) \o json

\* The extension posts a message: its frame is written to the bridge's stdin.
Post(m) ==
  /\ Len(posted) < MaxPosts
  /\ posted' = Append(posted, m)
  /\ stdin' = stdin \o Frame(JSONstringify(m))
  /\ UNCHANGED <<gatewayVars, linkVars, handlerVars, connVars, lengthBuffer, messageBuffer, expectedLength, received,
                  relayVars, superVars, extVars, backoffVars>>

\* onData(chunk) of readNativeMessage, up to its test for a complete body:
\* the buffers and the expected length it leaves.
onData(chunk) ==
  IF expectedLength = -1
    THEN LET lb == lengthBuffer \o chunk
         IN IF Len(lb) >= 4
              THEN [lengthBuffer |-> <<>>,
                    messageBuffer |-> IF Len(lb) > 4 THEN SubSeq(lb, 5, Len(lb)) ELSE messageBuffer,
                    expectedLength |-> readUInt32LE(lb)]
              ELSE [lengthBuffer |-> lb, messageBuffer |-> messageBuffer,
                    expectedLength |-> expectedLength]
    ELSE [lengthBuffer |-> lengthBuffer, messageBuffer |-> messageBuffer \o chunk,
          expectedLength |-> expectedLength]

\* Mutant: a message read while the socket is down is put in front of the queue.
EnqueueFirst(q, text) == <<text>> \o q

\* messageQueue.push(Buffer.from(JSON.stringify(message)))
Enqueue(q, text) == Append(q, text)

\* The body of the loop of handleExtensionMessages for a message m that
\* readNativeMessage resolved with: send its JSON text, or queue it.
Relay(m) ==
  /\ received' = Append(received, m)
  /\ IF ws = "OPEN"
       THEN sent' = Append(sent, JSONstringify(m)) /\ UNCHANGED messageQueue
       ELSE messageQueue' = Enqueue(messageQueue, JSONstringify(m)) /\ UNCHANGED sent

\* A 'data' event of stdin with the first k bytes that are waiting.  When
\* the body is complete the listener is removed and the promise settles;
\* handleExtensionMessages relays the message (or logs the JSON error) and
\* calls readNativeMessage again, which starts from empty buffers.  What
\* messageBuffer held beyond expectedLength goes with the old buffers.
StdinData(k) ==
  /\ k \in 1..Len(stdin)
  /\ stdin' = SubSeq(stdin, k + 1, Len(stdin))
  /\ LET d == onData(SubSeq(stdin, 1, k))
         body == SubSeq(d.messageBuffer, 1, d.expectedLength)
     IN IF d.expectedLength # -1 /\ Len(d.messageBuffer) >= d.expectedLength
          THEN /\ lengthBuffer' = <<>>
               /\ messageBuffer' = <<>>
               /\ expectedLength' = -1
               /\ IF IsJson(body)
                    THEN Relay(JSONparse(body))
                    ELSE UNCHANGED <<received, relayVars>>
          ELSE /\ lengthBuffer' = d.lengthBuffer
               /\ messageBuffer' = d.messageBuffer
               /\ expectedLength' = d.expectedLength
               /\ UNCHANGED <<received, relayVars>>
  /\ ws' = ws
  /\ UNCHANGED <<gatewayVars, linkVars, handlerVars, connVars, posted, superVars, extVars, backoffVars>>

\* CONFIG.maxReconnectAttempts of each leg
maxReconnectAttempts(leg) ==
  IF leg = "extension" THEN MaxExtAttempts ELSE MaxBridgeAttempts

\* Mutant: the supervisor never gives up.
GiveUpNever(leg) == FALSE

\* scheduleReconnect's test: reconnectAttempts >= CONFIG.maxReconnectAttempts
GiveUp(leg) == reconnectAttempts[leg] >= maxReconnectAttempts(leg)

\* Math.min and Math.pow(2, n)
Min(a, b) == IF a <= b THEN a ELSE b
RECURSIVE Pow2(_)
Pow2(n) == IF n = 0 THEN 1 ELSE 2 * Pow2(n - 1)

\* The delay scheduleReconnect computes when reconnectAttempts is n.  The
\* extension computes it before its timer callback counts the attempt, the
\* bridge after scheduleReconnect has counted it.
Backoff(leg, n) ==
  IF leg = "extension"
    THEN Min(reconnectBaseDelay * Pow2(n), reconnectMaxDelay)
    ELSE reconnectDelay * Min(n, 5)

\* ws.on('open'): reset the counter and send what is queued, oldest first.
OnWsOpen ==
  /\ ws = "CONNECTING"
  /\ ws' = "OPEN"
  /\ reconnectAttempts' = [reconnectAttempts EXCEPT !["bridge"] = 0]
  /\ retries' = [retries EXCEPT !["bridge"] = 0]
  /\ sent' = sent \o messageQueue
  /\ messageQueue' = <<>>
  /\ UNCHANGED <<gatewayVars, wire, toExtension, arrived, handlerVars, connVars, decoderVars,
                  reconnectTimer, extVars, delay>>

\* The same with the extension left out of the picture.
WsOpen ==
  /\ OnWsOpen
  /\ UNCHANGED notices

\* The same with its last statement: writeNativeMessage({ type: 'connected' }).
WsOpenNotified ==
  /\ Len(notices) < MaxNotices
  /\ OnWsOpen
  /\ notices' = Append(notices, "connected")

\* The gateway's close frame arrives: the socket is CLOSING until its
\* connection has ended; no handler of the bridge runs.
WsCloseFrame ==
  /\ ws = "OPEN"
  /\ ws' = "CLOSING"
  /\ UNCHANGED <<gatewayVars, linkVars, handlerVars, connVars, decoderVars, messageQueue, sent, superVars, extVars,
                  backoffVars>>

\* ws.on('close'), after a failed attempt or a lost connection: ws = null
\* and scheduleReconnect(), which counts the attempt and arms the timer
\* unless the attempts are used up.
OnWsClose ==
  /\ ws \in {"CONNECTING", "OPEN", "CLOSING"}
  /\ ws' = "null"
  /\ liveSockets' = liveSockets - 1
  /\ IF GiveUp("bridge")
       THEN UNCHANGED <<superVars, delay>>
       ELSE /\ reconnectAttempts' = [reconnectAttempts EXCEPT !["bridge"] = @ + 1]
            /\ reconnectTimer' = [reconnectTimer EXCEPT !["bridge"] = TRUE]
            /\ delay' = [delay EXCEPT !["bridge"] =
                           Backoff("bridge", reconnectAttempts["bridge"] + 1)]
  /\ UNCHANGED <<gatewayVars, wire, toExtension, arrived, handlerVars, openPorts, decoderVars,
                  messageQueue, sent, extVars, retries>>

\* The same with the extension left out of the picture.
WsClose ==
  /\ OnWsClose
  /\ UNCHANGED notices

\* The same with what it writes to the extension: { type: 'disconnected' },
\* and from scheduleReconnect { type: 'error' } when the attempts are used up.
WsCloseNotified ==
  /\ Len(notices) + (IF GiveUp("bridge") THEN 2 ELSE 1) <= MaxNotices
  /\ OnWsClose
  /\ notices' = notices \o (IF GiveUp("bridge") THEN <<"disconnected", "error">>
                                                ELSE <<"disconnected">>)

\* The bridge's reconnect timer fires: connectToServer().
connectToServer ==
  /\ reconnectTimer["bridge"]
  /\ reconnectTimer' = [reconnectTimer EXCEPT !["bridge"] = FALSE]
  /\ ws' = IF ws = "OPEN" THEN ws ELSE "CONNECTING"
  /\ retries' = IF ws = "OPEN" THEN retries ELSE [retries EXCEPT !["bridge"] = @ + 1]
  /\ liveSockets' = IF ws = "OPEN" THEN liveSockets ELSE liveSockets + 1
  /\ UNCHANGED <<gatewayVars, linkVars, handlerVars, openPorts, decoderVars, messageQueue, sent, reconnectAttempts, extVars,
                  delay>>

\* ---------------------------------------------------------- the extension
\* Mutant: connect() opens a port whether or not there is one.
connectUnguarded ==
  port' = TRUE /\ connectionStatus' = "connecting" /\ openPorts' = openPorts + 1

\* connect(): nothing if there is a port, else 'connecting' and a new port
\* (connectNative reports a host that cannot be started through onDisconnect).
connect ==
  IF port
    THEN UNCHANGED <<extVars, openPorts>>
    ELSE port' = TRUE /\ connectionStatus' = "connecting" /\ openPorts' = openPorts + 1

\* Mutant: the timer is armed even when the attempts are used up.
scheduleReconnectAlways ==
  /\ connectionStatus' = IF GiveUp("extension") THEN "failed" ELSE "disconnected"
  /\ reconnectTimer' = [reconnectTimer EXCEPT !["extension"] = TRUE]
  /\ delay' = [delay EXCEPT !["extension"] =
                 Backoff("extension", reconnectAttempts["extension"])]
  /\ UNCHANGED reconnectAttempts

\* scheduleReconnect() of the extension, called after setConnectionStatus(
\* 'disconnected'): clear the timer, then 'failed' if the attempts are used
\* up, else arm the timer.
scheduleReconnect ==
  /\ IF GiveUp("extension")
       THEN /\ connectionStatus' = "failed"
            /\ reconnectTimer' = [reconnectTimer EXCEPT !["extension"] = FALSE]
            /\ UNCHANGED delay
       ELSE /\ connectionStatus' = "disconnected"
            /\ reconnectTimer' = [reconnectTimer EXCEPT !["extension"] = TRUE]
            /\ delay' = [delay EXCEPT !["extension"] =
                           Backoff("extension", reconnectAttempts["extension"])]
  /\ UNCHANGED reconnectAttempts

\* port.onDisconnect: the native host has exited or could not be started.
PortDisconnect ==
  /\ openPorts > 0
  /\ openPorts' = openPorts - 1
  /\ port' = FALSE
  /\ scheduleReconnect
  /\ UNCHANGED <<gatewayVars, linkVars, handlerVars, liveSockets, decoderVars, relayVars, retries>>

\* The extension's reconnect timer fires: count the attempt and connect().
ReconnectTimerFires ==
  /\ reconnectTimer["extension"]
  /\ reconnectTimer' = [reconnectTimer EXCEPT !["extension"] = FALSE]
  /\ reconnectAttempts' = [reconnectAttempts EXCEPT !["extension"] = @ + 1]
  /\ connect
  /\ retries' = IF port THEN retries ELSE [retries EXCEPT !["extension"] = @ + 1]
  /\ UNCHANGED <<gatewayVars, linkVars, handlerVars, liveSockets, decoderVars, relayVars, delay>>

\* port.onMessage for the status messages of the native host.
OnHostMessage(type) ==
  /\ port
  /\ CASE type = "connected" ->
             /\ connectionStatus' = "connected"
             /\ reconnectAttempts' = [reconnectAttempts EXCEPT !["extension"] = 0]
             /\ retries' = [retries EXCEPT !["extension"] = 0]
        [] type = "disconnected" ->
             /\ connectionStatus' = "reconnecting"
             /\ UNCHANGED <<reconnectAttempts, retries>>
        [] type = "error" ->
             UNCHANGED <<connectionStatus, reconnectAttempts, retries>>
  /\ UNCHANGED <<gatewayVars, wire, toExtension, arrived, handlerVars, connVars, decoderVars,
                  relayVars, reconnectTimer, port, delay>>

\* The same for a status message of any type, whatever the bridge has written.
HostMessage(type) ==
  /\ OnHostMessage(type)
  /\ UNCHANGED notices

\* The port delivers the oldest status message the bridge has written.
HostNotice ==
  /\ notices # <<>>
  /\ OnHostMessage(Head(notices))
  /\ notices' = Tail(notices)

\* Mutant: the popup's disconnect leaves a pending reconnect timer armed.
PopupMessageKeepsTimer(type) ==
  /\ CASE type = "connect" ->
             /\ connect
             /\ UNCHANGED reconnectTimer
        [] type = "disconnect" ->
             /\ port' = FALSE
             /\ openPorts' = IF port THEN openPorts - 1 ELSE openPorts
             /\ UNCHANGED reconnectTimer
             /\ connectionStatus' = "disconnected"
  /\ UNCHANGED <<gatewayVars, linkVars, handlerVars, liveSockets, decoderVars, relayVars,
                  reconnectAttempts, backoffVars>>

\* chrome.runtime.onMessage for the popup's connect and disconnect.
PopupMessage(type) ==
  /\ CASE type = "connect" ->
             /\ connect
             /\ UNCHANGED reconnectTimer
        [] type = "disconnect" ->
             \* if (port) { port.disconnect(); port = null; }
             /\ port' = FALSE
             /\ openPorts' = IF port THEN openPorts - 1 ELSE openPorts
             /\ reconnectTimer' = [reconnectTimer EXCEPT !["extension"] = FALSE]
             /\ connectionStatus' = "disconnected"
  /\ UNCHANGED <<gatewayVars, linkVars, handlerVars, liveSockets, decoderVars, relayVars,
                  reconnectAttempts, backoffVars>>

\* The operation types of request envelopes: ping and a type that is no
\* case of handleMessage's switch return at once; click waits for the
\* browser, and returns its data or throws.
OpTypes == {"ping", "click", "unknown_type"}
Immediate == {"ping", "unknown_type"}
Envelopes == [id : Ids, type : OpTypes]

\* Mutant: the response is given the id of another request.
ResponseIdOther(id) == IF id = 1 THEN 2 ELSE 1

\* The id of the response handleMessage returns, and of the one the
\* listener's catch block builds: the id of the message.
ResponseId(id) == id

\* if (port) port.postMessage(response): the frame of the response, known by
\* its id, is written to the bridge's stdin.
PostResponse(id) ==
  IF port
    THEN /\ posted' = Append(posted, ResponseId(id))
         /\ stdin' = stdin \o Frame(JSONstringify(ResponseId(id)))
    ELSE UNCHANGED <<posted, stdin>>

\* port.onMessage for an envelope with an id, up to the first point where
\* handleMessage waits: the response is posted if the type needs no wait.
OnPortMessage(m) ==
  /\ port
  /\ requests' = Append(requests, m)
  /\ IF m.type \in Immediate
       THEN PostResponse(m.id) /\ UNCHANGED handling
       ELSE handling' = handling \cup {Len(requests) + 1} /\ UNCHANGED <<posted, stdin>>
  /\ UNCHANGED <<gatewayVars, connVars, lengthBuffer, messageBuffer, expectedLength, received,
                  relayVars, superVars, extVars, backoffVars>>

\* The same with the sender of the envelope left out of the picture.
PortRequest(m) ==
  /\ Len(requests) < MaxPosts
  /\ OnPortMessage(m)
  /\ UNCHANGED linkVars

\* handleMessage returns or throws for request k: the listener goes on after
\* its await and posts the response, or the error with message.id, if a port
\* is there.
HandleDone(k) ==
  /\ k \in handling
  /\ handling' = handling \ {k}
  /\ PostResponse(requests[k].id)
  /\ UNCHANGED <<gatewayVars, linkVars, connVars, requests, lengthBuffer, messageBuffer,
                  expectedLength, received, relayVars, superVars, extVars, backoffVars>>

\* The two reconnection supervisors: the extension's port and the bridge's
\* socket come and go.
SupervisorNext ==
  \/ PortDisconnect
  \/ ReconnectTimerFires
  \/ \E type \in {"connected", "disconnected", "error"} : HostMessage(type)
  \/ \E type \in {"connect", "disconnect"} : PopupMessage(type)
  \/ WsOpen
  \/ WsCloseFrame
  \/ WsClose
  \/ connectToServer

SupervisorSpec == Init /\ [][SupervisorNext]_vars

\* The bridge's supervisor with the extension listening on an open port:
\* what the bridge writes about its socket reaches the extension in order.
NoticeNext ==
  \/ WsOpenNotified
  \/ WsCloseFrame
  \/ WsCloseNotified
  \/ connectToServer
  \/ HostNotice

NoticeSpec == Init /\ [][NoticeNext]_vars

\* The bridge: the extension posts, stdin delivers, the socket to the
\* gateway opens, closes and is reopened.
BridgeNext ==
  \/ \E m \in Posts : Post(m)
  \/ \E k \in 1..Len(stdin) : StdinData(k)
  \/ WsOpen
  \/ WsCloseFrame
  \/ WsClose
  \/ connectToServer

BridgeSpec == Init /\ [][BridgeNext]_vars

\* The codec of the bridge on its own.  What writeNativeMessage writes for a
\* message is fed to readNativeMessage.
Loopback(m) ==
  /\ Len(posted) < MaxPosts
  /\ posted' = Append(posted, m)
  /\ stdin' = stdin \o writeNativeMessage(m)
  /\ UNCHANGED <<gatewayVars, linkVars, handlerVars, connVars, lengthBuffer, messageBuffer, expectedLength, received,
                  relayVars, superVars, extVars, backoffVars>>

\* A frame arrives whose body is not JSON text; posted records that no
\* message was in it.
NoMessage == -1
BadBodies == {<<123>>, <<49, 120>>}
PostText(body) ==
  /\ Len(posted) < MaxPosts
  /\ posted' = Append(posted, NoMessage)
  /\ stdin' = stdin \o Frame(body)
  /\ UNCHANGED <<gatewayVars, linkVars, handlerVars, connVars, lengthBuffer, messageBuffer, expectedLength, received,
                  relayVars, superVars, extVars, backoffVars>>

CodecNext ==
  \/ \E m \in Posts : Loopback(m)
  \/ \E body \in BadBodies : PostText(body)
  \/ \E k \in 1..Len(stdin) : StdinData(k)
  \/ WsOpen

CodecSpec == Init /\ [][CodecNext]_vars

\* Time passes.
Tick ==
  /\ now < MaxTime * TickMs
  /\ now' = now + TickMs
  /\ UNCHANGED <<sockVars, corrVars, pc, call, result, gateVars, audit, startTime,
                  configVars, fileVars, domainVars, peerVars>>

Next ==
  \/ \E i \in Inv, c \in Calls : CallTool(i, c)
  \/ \E i \in Inv : WaitDone(i)
  \/ \E i \in Inv : TimeoutFires(i)
  \/ \E s \in Receiver, m \in Msgs : SocketMessage(s, m)
  \/ \E s \in Sock, req \in Handshakes : Connection(s, req)
  \/ \E s \in Sock : CloseFrame(s)
  \/ \E s \in Sock : SocketClose(s)

\* The gateway while all calls fall into one rate window.
Spec == Init /\ [][Next]_vars

\* Time passes, half a minute at a time.
HalfMinute ==
  /\ now < MaxGateTime * HalfMinuteMs
  /\ now' = now + HalfMinuteMs
  /\ UNCHANGED <<sockVars, corrVars, pc, call, result, gateVars, audit, startTime,
                  configVars, fileVars, domainVars, peerVars>>

\* The gate on its own: tool calls arrive as time passes and no extension
\* connects, so a call the gate admits ends with the not-connected error.
GateNext ==
  \/ \E i \in Inv, c \in GateCalls : CallTool(i, c)
  \/ HalfMinute

GateSpec == GateInit /\ [][GateNext]_vars

\* The gateway with a client that navigates.
UrlNext ==
  \/ \E i \in Inv, c \in UrlCalls : CallTool(i, c)
  \/ \E i \in Inv : WaitDone(i)
  \/ \E i \in Inv : TimeoutFires(i)
  \/ \E s \in Receiver, m \in Msgs : SocketMessage(s, m)
  \/ \E s \in Sock, req \in Handshakes : Connection(s, req)
  \/ \E s \in Sock : CloseFrame(s)
  \/ \E s \in Sock : SocketClose(s)

UrlSpec == Init /\ [][UrlNext]_vars

\* The extension's message handler on its own, while its port comes and goes.
ExtNext ==
  \/ \E m \in Envelopes : PortRequest(m)
  \/ \E k \in 1..MaxPosts : HandleDone(k)
  \/ PortDisconnect
  \/ ReconnectTimerFires

ExtSpec == Init /\ [][ExtNext]_vars

\* DEFAULT_SECURITY_CONFIG, in the fields of the model.
DefaultConfig == Config(FALSE, MaxActionsPerMinute, DefaultDomains)

\* loadSecurityConfig: fs.readFile has read CONFIG_FILE as it is now.
LoadRead ==
  /\ load.pc = "read"
  /\ load' = [pc |-> "assign", loaded |-> <<configFile>>]
  /\ UNCHANGED <<sockVars, corrVars, pc, call, result, gateVars, now, audit, startTime,
                  configVars, configFile, content, domainVars, peerVars>>

\* loadSecurityConfig after its await: JSON.parse, then
\* securityConfig = { ...DEFAULT_SECURITY_CONFIG, ...loaded }.
LoadAssign ==
  /\ load.pc = "assign"
  /\ LET assigned == Spread(DefaultConfig, load.loaded[1])
     IN /\ emergencyStop' = assigned.emergencyStop
        /\ maxActionsPerMinute' = assigned.rateLimit.maxActionsPerMinute
        /\ domains' = assigned.domains
  /\ load' = Loaded
  /\ UNCHANGED <<sockVars, corrVars, pc, call, result, actionTimestamps, now, audit,
                  startTime, configFile, content, domainVars, peerVars>>

\* loadSecurityConfig's catch: the file cannot be read, and the config as it
\* is in memory is saved.
LoadFails ==
  /\ load.pc = "read"
  /\ load' = Loaded
  /\ configFile' = securityConfig
  /\ UNCHANGED <<sockVars, corrVars, pc, call, result, gateVars, now, audit, startTime,
                  configVars, content, domainVars, peerVars>>

\* The gateway from the start of its script: securityConfig holds the
\* defaults, loadSecurityConfig has been called and not awaited, the file is
\* as an earlier run left it, and the client's calls are handled meanwhile.
StartupInit ==
  /\ extensionSocket = 0
  /\ readyState = [s \in Sock |-> "NONE"]
  /\ pendingRequests = [x \in Ids |-> 0]
  /\ timer = [i \in Inv |-> FALSE]
  /\ promise = [i \in Inv |-> "none"]
  /\ settleCalls = [i \in Inv |-> 0]
  /\ reqId = [i \in Inv |-> 0]
  /\ pc = [i \in Inv |-> "idle"]
  /\ call = [i \in Inv |-> NoCall]
  /\ result = [i \in Inv |-> NoResult]
  /\ outbox = [i \in Inv |-> <<>>]
  /\ emergencyStop = DefaultConfig.emergencyStop
  /\ now = 0
  /\ actionTimestamps = <<>>
  /\ audit = [i \in Inv |-> <<>>]
  /\ startTime = [i \in Inv |-> 0]
  /\ content = [i \in Inv |-> NoContent]
  /\ load = Loading
  /\ maxActionsPerMinute = DefaultConfig.rateLimit.maxActionsPerMinute
  /\ domains = DefaultConfig.domains
  /\ url = NoUrl
  /\ domainCheck = NoCheck
  /\ \E stop \in BOOLEAN, rate \in 1..MaxRate :
       configFile = Config(stop, rate, DefaultDomains)
  /\ PeerInit

\* The calls of a client at startup: the emergency stop and a browser action.
StartupCalls == {c \in Calls : c.name \in {"emergency_stop", "click"}}

StartupNext ==
  \/ \E i \in Inv, c \in StartupCalls : CallTool(i, c)
  \/ LoadRead
  \/ LoadAssign
  \/ LoadFails

StartupSpec == StartupInit /\ [][StartupNext]_vars

\* The gateway with a client whose calls end in every way a call can end.
AuditNext ==
  \/ \E i \in Inv, c \in AuditCalls : CallTool(i, c)
  \/ \E i \in Inv : TimeoutFires(i)
  \/ \E s \in Receiver, m \in Msgs : SocketMessage(s, m)
  \/ \E s \in Sock, req \in Handshakes : Connection(s, req)
  \/ \E s \in Sock : CloseFrame(s)
  \/ \E s \in Sock : SocketClose(s)

AuditSpec == Init /\ [][AuditNext]_vars

\* The gateway with a client that views and updates the config.
ConfigNext ==
  \/ \E i \in Inv, c \in ConfigCalls : CallTool(i, c)
  \/ \E i \in Inv : DirsMade(i)
  \/ \E i \in Inv : WriteDone(i)

ConfigSpec == Init /\ [][ConfigNext]_vars

\* isDomainAllowed as a function of the config and of the URL.
DomainInit ==
  /\ Started
  /\ maxActionsPerMinute = MaxActionsPerMinute
  /\ domains \in DomainConfigs
  /\ url \in Urls
  /\ domainCheck = NoCheck
  /\ configFile = securityConfig

DomainNext == CheckDomain

DomainSpec == DomainInit /\ [][DomainNext]_vars

\* The same with the clock advancing.
ClockNext == Next \/ Tick

ClockSpec == Init /\ [][ClockNext]_vars

\* The gateway with a client that only issues relayed calls: the request
\* correlator and the socket server on their own.
RelayNext ==
  \/ \E i \in Inv, c \in RelayCalls : CallTool(i, c)
  \/ \E i \in Inv : WaitDone(i)
  \/ \E i \in Inv : TimeoutFires(i)
  \/ \E s \in Receiver, m \in Msgs : SocketMessage(s, m)
  \/ \E s \in Sock, req \in Handshakes : Connection(s, req)
  \/ \E s \in Sock : CloseFrame(s)
  \/ \E s \in Sock : SocketClose(s)

RelaySpec == Init /\ [][RelayNext]_vars

\* Timers fire: the event loop runs every callback whose timer is due.
FairSpec ==
  /\ RelaySpec
  /\ \A i \in Inv : WF_vars(TimeoutFires(i))
  /\ \A i \in Inv : WF_vars(WaitDone(i))

\* ------------------------------------------ the three processes together
\* data of the response handleMessage builds for a ping: {pong: true, ...}
PongData == "pong"
PingCall == [name |-> "ping", stop |-> FALSE, url |-> NoUrl, update |-> NoUpdate]

\* The three processes with both links up: the gateway has accepted the
\* bridge's connection, the bridge's socket is open, the extension holds its
\* port and has been told 'connected'.  Emergency stop is off.
E2EInit ==
  /\ extensionSocket = 1
  /\ readyState = [s \in Sock |-> IF s = 1 THEN "OPEN" ELSE "NONE"]
  /\ pendingRequests = [x \in Ids |-> 0]
  /\ timer = [i \in Inv |-> FALSE]
  /\ promise = [i \in Inv |-> "none"]
  /\ settleCalls = [i \in Inv |-> 0]
  /\ reqId = [i \in Inv |-> 0]
  /\ pc = [i \in Inv |-> "idle"]
  /\ call = [i \in Inv |-> NoCall]
  /\ result = [i \in Inv |-> NoResult]
  /\ outbox = [i \in Inv |-> <<>>]
  /\ emergencyStop = FALSE
  /\ now = 0
  /\ actionTimestamps = <<>>
  /\ audit = [i \in Inv |-> <<>>]
  /\ startTime = [i \in Inv |-> 0]
  /\ content = [i \in Inv |-> NoContent]
  /\ load = Loaded
  /\ maxActionsPerMinute = MaxActionsPerMinute
  /\ domains = DefaultDomains
  /\ url = NoUrl
  /\ domainCheck = NoCheck
  /\ configFile = securityConfig
  /\ stdin = <<>>
  /\ posted = <<>>
  /\ lengthBuffer = <<>>
  /\ messageBuffer = <<>>
  /\ expectedLength = -1
  /\ received = <<>>
  /\ ws = "OPEN"
  /\ messageQueue = <<>>
  /\ sent = <<>>
  /\ reconnectAttempts = [l \in Legs |-> 0]
  /\ reconnectTimer = [l \in Legs |-> FALSE]
  /\ port = TRUE
  /\ connectionStatus = "connected"
  /\ delay = [l \in Legs |-> 0]
  /\ retries = [l \in Legs |-> 0]
  /\ wire = <<>>
  /\ toExtension = <<>>
  /\ arrived = 0
  /\ notices = <<>>
  /\ requests = <<>>
  /\ handling = {}
  /\ openPorts = 1
  /\ liveSockets = 1

\* The client calls ping: the handler runs up to its await, and the envelope
\* socket.send was given, if any, is on its way to the bridge.
PingCalled(i) ==
  /\ HandleCall(i, PingCall)
  /\ wire' = IF outbox'[i] # outbox[i] THEN Append(wire, reqId'[i]) ELSE wire
  /\ UNCHANGED <<decoderVars, relayVars, superVars, extVars, backoffVars,
                  toExtension, arrived, notices, handlerVars, connVars>>

\* ws.on('message') of the bridge: JSON.parse, then writeNativeMessage; the
\* browser reads the frame from the bridge's stdout.
WsMessage ==
  /\ wire # <<>>
  /\ ws = "OPEN"
  /\ toExtension' = Append(toExtension, Head(wire))
  /\ wire' = Tail(wire)
  /\ UNCHANGED <<gatewayVars, decoderVars, relayVars, superVars, extVars,
                  backoffVars, arrived, notices, handlerVars, connVars>>

\* port.onMessage of the extension for a ping envelope: handleMessage builds
\* {id, success: true, data: {pong: true, ...}} and port.postMessage writes
\* its frame to the bridge's stdin.  The response is known by its id.
PortMessage ==
  /\ toExtension # <<>>
  /\ OnPortMessage([id |-> Head(toExtension), type |-> "ping"])
  /\ toExtension' = Tail(toExtension)
  /\ UNCHANGED <<wire, arrived, notices>>

\* The gateway's socket delivers the next message the bridge sent:
\* JSON.parse gives back the ping response with that id.
Delivered ==
  /\ arrived < Len(sent)
  /\ arrived' = arrived + 1
  /\ OnMessage(extensionSocket,
               [kind |-> "json", id |-> JSONparse(sent[arrived + 1]),
                success |-> TRUE, val |-> PongData])
  /\ UNCHANGED <<decoderVars, relayVars, superVars, extVars, backoffVars,
                  wire, toExtension, notices, handlerVars, connVars>>

\* Nothing is in transit between the gateway and the extension, either way.
Quiet ==
  /\ wire = <<>>
  /\ toExtension = <<>>
  /\ stdin = <<>>
  /\ arrived = Len(sent)

\* CONFIG.requestTimeout is 30 s, a relay step takes milliseconds: the timer
\* of a request fires only when nothing is left that could answer it.
PingTimeout(i) ==
  /\ Quiet
  /\ TimeoutFires(i)

E2ENext ==
  \/ \E i \in Inv : PingCalled(i)
  \/ WsMessage
  \/ PortMessage
  \/ \E k \in 1..Len(stdin) : StdinData(k)
  \/ Delivered
  \/ \E i \in Inv : PingTimeout(i)

E2ESpec == E2EInit /\ [][E2ENext]_vars

TypeOK ==
  /\ extensionSocket \in 0..MaxSock
  /\ readyState \in [Sock -> {"NONE", "OPEN", "CLOSING", "CLOSED"}]
  /\ pendingRequests \in [Ids -> 0..MaxInv]
  /\ timer \in [Inv -> BOOLEAN]
  /\ promise \in [Inv -> {"none", "pending", "fulfilled", "rejected"}]
  /\ reqId \in [Inv -> 0..MaxId]
  /\ pc \in [Inv -> {"idle", "await", "wait", "await2", "mkdir", "write", "done"}]
  /\ emergencyStop \in BOOLEAN

\* ------------------------------------------------------------- properties
\* A step in which invocation i reaches a call of sendToExtension: the entry
\* of a sending tool that passes the gate, or the end of the wait of
\* navigate_and_read.
SendingTools == {"ping", "click", "navigate_and_read"}
ReachesSend(i) ==
  \/ pc[i] = "wait" /\ pc'[i] # "wait"
  \/ /\ pc[i] = "idle" /\ pc'[i] # "idle"
     /\ call'[i].name \in SendingTools
     /\ result'[i].text \notin {EmergencyMsg, RateLimitMsg}

\* C1: single resolution.  No promise of sendToExtension has resolve/reject
\* called on it more than once; a timeout timer is armed only while its
\* promise is unsettled (so a timer never fires after a response settled the
\* request), and an entry of pendingRequests exists only for an unsettled
\* promise (so a late response finds no entry).
SingleResolution ==
  \A i \in Inv :
    /\ settleCalls[i] <= 1
    /\ timer[i] => promise[i] = "pending"
    /\ \A x \in Ids : pendingRequests[x] = i => promise[i] = "pending"

\* One request has been settled by its response and another by its timer,
\* on a socket that can still deliver late responses.
SettledOnceWitness ==
  /\ \E i \in Inv : settleCalls[i] = 1 /\ promise[i] = "fulfilled"
  /\ \E i \in Inv : settleCalls[i] = 1 /\ result[i] = ErrorResult(TimeoutMsg)
  /\ \E s \in Sock : readyState[s] = "OPEN"

\* C2: no pending entry outlives the socket it was sent on: once every
\* accepted socket has closed, pendingRequests is empty and no request is
\* still waiting.
NoPendingAfterClose ==
  (\A s \in Sock : readyState[s] \in {"NONE", "CLOSED"})
    => /\ \A x \in Ids : pendingRequests[x] = 0
       /\ \A i \in Inv : promise[i] # "pending"

\* C3: a sendToExtension call made while there is no socket, or the socket is
\* not OPEN, fails at once with the not-connected error and registers
\* nothing: no entry, no timer, no id, no envelope; and an envelope is only
\* ever sent in a step that starts with an OPEN socket, so nothing is queued
\* for a later connection.
NotConnectedFailsFast ==
  [][/\ \A i \in Inv :
          (ReachesSend(i) /\ (extensionSocket = 0 \/ readyState[extensionSocket] # "OPEN"))
            => /\ pc'[i] = "done"
               /\ result'[i] = ErrorResult(NotConnectedMsg)
               /\ UNCHANGED <<pendingRequests, timer, reqId, outbox, promise>>
     /\ outbox' # outbox => (extensionSocket # 0 /\ readyState[extensionSocket] = "OPEN")
    ]_vars

\* An invocation that sent nothing ended with the not-connected error, and so
\* did a navigate_and_read whose socket went away during its wait.
NotConnectedWitness ==
  /\ \E i \in Inv : result[i] = ErrorResult(NotConnectedMsg) /\ outbox[i] = <<>>
  /\ \E i \in Inv : result[i] = ErrorResult(NotConnectedMsg) /\ outbox[i] = <<"navigate">>

\* invocation i has completed, with a result
Completed(i) == pc[i] = "done" /\ result[i] # NoResult

\* C4: every invocation that has been issued eventually completes, with a
\* result, and none stays pending forever: an issued invocation stays issued,
\* a completed one stays completed, and from some point on every invocation
\* is either not issued or completed.
EventuallyCompletes ==
  /\ [][\A i \in Inv : (pc[i] # "idle" => pc'[i] # "idle")
                          /\ (Completed(i) => Completed(i)')]_vars
  /\ <>[](\A i \in Inv : pc[i] = "idle" \/ Completed(i))

\* Two invocations have completed, one by timeout and one with data.
CompletedWitness ==
  \E i, j \in Inv : /\ pc[i] = "done" /\ result[i] = ErrorResult(TimeoutMsg)
                    /\ pc[j] = "done" /\ result[j] \in {OkResult(d) : d \in Data}

\* C5: a response settles the request stored under its id, and only a
\* request with that id, with its own data or error.
MatchedById ==
  [][\A s \in Receiver, m \in Msgs :
      (m.kind = "json" /\ pendingRequests[m.id] # 0 /\ SocketMessage(s, m)) =>
       /\ \A i \in Inv :
             (promise[i] = "pending" /\ promise'[i] # "pending")
               => /\ reqId[i] = m.id
                  /\ pendingRequests[m.id] = i
                  /\ promise'[i] = IF m.success THEN "fulfilled" ELSE "rejected"
                  /\ pc'[i] = "done" =>
                        result'[i] = IF m.success THEN OkResult(m.val) ELSE ErrorResult(m.val)
       /\ promise'[pendingRequests[m.id]] # "pending"
       /\ pendingRequests'[m.id] = 0
    ]_vars

\* Two requests with different ids were in flight and the one registered
\* second has been answered while the first is still waiting.
OutOfOrderWitness ==
  \E i, j \in Inv : /\ i < j
                    /\ promise[i] = "pending" /\ pendingRequests[reqId[i]] = i
                    /\ call[j].name # "navigate_and_read"
                    /\ promise[j] = "fulfilled" /\ result[j] = OkResult("d1")

\* C6: the handler's run on a message that is not JSON, or whose id has no
\* entry in pendingRequests, changes nothing: a step that changes any part of
\* the gateway's state is not the handler's run on such a message.
UnknownIdDiscarded ==
  [][\/ UNCHANGED <<extensionSocket, readyState, pendingRequests, timer, promise,
                    settleCalls, reqId, pc, call, result, outbox, emergencyStop,
                    now, actionTimestamps, audit, startTime, maxActionsPerMinute,
                    domains>>
     \/ \A s \in Receiver, m \in Msgs :
          ~((m.kind # "json" \/ pendingRequests[m.id] = 0) /\ SocketMessage(s, m))
    ]_vars

\* A socket can deliver a response for an id that has no entry (its request
\* has timed out) while another request is pending with its timer armed.
UnknownIdWitness ==
  /\ \E s \in Sock : readyState[s] \in {"OPEN", "CLOSING"}
  /\ \E x \in Ids : pendingRequests[x] = 0
  /\ \E i \in Inv : promise[i] = "pending" /\ timer[i]
  /\ \E i \in Inv : result[i] = ErrorResult(TimeoutMsg)

\* C7: the id given to a new request is the id of no pending request, so
\* registering it replaces no entry.
NewIdIsFresh ==
  [][\A i \in Inv :
       (promise[i] # "pending" /\ promise'[i] = "pending")
         => pendingRequests[reqId'[i]] = 0
    ]_vars

\* C8: at most one accepted socket is OPEN, it is the one extensionSocket
\* refers to, and every other accepted socket has been closed or is closing.
OneLiveSocket ==
  /\ Cardinality({s \in Sock : readyState[s] = "OPEN"}) <= 1
  /\ \A s \in Sock : readyState[s] = "OPEN" => extensionSocket = s
  /\ \A s \in Sock : (readyState[s] # "NONE" /\ s # extensionSocket)
                        => readyState[s] \in {"CLOSING", "CLOSED"}

\* A connection has replaced an earlier one that has not finished closing.
ReplacedWitness ==
  \E s, t \in Sock : /\ s # t
                     /\ readyState[s] = "CLOSING"
                     /\ readyState[t] = "OPEN" /\ extensionSocket = t

NoSendWhileStopped ==
  [][(emergencyStop /\ emergencyStop') => outbox' = outbox]_vars

\* An invocation the rate limiter has let through.
Admitted(i) ==
  /\ pc[i] # "idle"
  /\ call[i].name \notin readOnlyTools
  /\ result[i].text \notin {EmergencyMsg, RateLimitMsg}

\* The recorded timestamps that are not more than a minute old.
Recent(ts, t) == SelectSeq(ts, LAMBDA x : x >= t - RateWindowMs)

\* C11: of the rate-limited invocations admitted, no more than
\* maxActionsPerMinute are within 60 seconds of one another; a rate-limited
\* call that finds maxActionsPerMinute recorded timestamps of the last 60
\* seconds is rejected as rate limited, sends nothing and records nothing;
\* one that finds fewer (none, once they are all more than 60 seconds old)
\* is admitted and recorded, the older timestamps being dropped either way.
RateLimitHolds ==
  /\ [](\A i \in Inv : Admitted(i) =>
          Cardinality({j \in Inv : /\ Admitted(j)
                                   /\ startTime[i] <= startTime[j]
                                   /\ startTime[j] <= startTime[i] + RateWindowMs})
            <= maxActionsPerMinute)
  /\ [][\A i \in Inv :
          (pc[i] = "idle" /\ pc'[i] # "idle" /\ ~emergencyStop
             /\ call'[i].name \notin readOnlyTools)
            => IF Len(Recent(actionTimestamps, now)) >= maxActionsPerMinute
                 THEN /\ pc'[i] = "done"
                      /\ result'[i] = ErrorResult(RateLimitMsg)
                      /\ outbox' = outbox
                      /\ actionTimestamps' = Recent(actionTimestamps, now)
                 ELSE /\ result'[i].text # RateLimitMsg
                      /\ actionTimestamps' = Append(Recent(actionTimestamps, now), now)
      ]_vars

\* With one action a minute, a click was admitted and a second click, exactly
\* 60 seconds later, was rejected: the first timestamp is not yet pruned.
RateLimitedWitness ==
  /\ maxActionsPerMinute = 1
  /\ \E i, j \in Inv : /\ Admitted(i) /\ call[i].name = "click"
                       /\ call[j].name = "click"
                       /\ result[j] = ErrorResult(RateLimitMsg)
                       /\ startTime[j] = startTime[i] + RateWindowMs

\* C12: of the rate-limited invocations admitted, no more than
\* maxActionsPerSecond are within one second of one another.
PerSecondLimit ==
  \A i \in Inv : Admitted(i) =>
     Cardinality({j \in Inv : /\ Admitted(j)
                              /\ startTime[i] <= startTime[j]
                              /\ startTime[j] <= startTime[i] + SecondMs})
       <= MaxActionsPerSecond

\* C13: a call of a security tool or of a read-only tool is never rejected as
\* rate limited and takes no capacity from the rate window: as many
\* timestamps of the last 60 seconds are recorded after it as before.
ExemptBypassesLimiter ==
  [][\A i \in Inv :
       (pc[i] = "idle" /\ pc'[i] # "idle" /\ call'[i].name \in readOnlyTools)
         => /\ result'[i].text # RateLimitMsg
            /\ Len(Recent(actionTimestamps', now)) = Len(Recent(actionTimestamps, now))
    ]_vars

\* The parsed hostname of a URL and the match of a list entry against it:
\* the entry itself or a name ending in a dot and the entry; an entry that
\* is a scheme matches the URLs of that scheme.
Schemes == {"chrome://", "chrome-extension://", "file://"}
HostMatches(h, e) ==
  \/ h = e
  \/ /\ Len(h) > Len(e) + 1
     /\ SubSeq(h, Len(h) - Len(e) + 1, Len(h)) = e
     /\ h[Len(h) - Len(e)] = "."
EntryMatches(u, e) ==
  IF Len(e) = 1 /\ e[1] \in Schemes THEN u.scheme = e[1] ELSE HostMatches(u.host, e)

\* C14: isDomainAllowed allows a URL exactly when no blocklist entry matches
\* its scheme or parsed hostname and the allowlist is empty or has an entry
\* that matches its parsed hostname.
MatchesByHostname ==
  domainCheck # NoCheck =>
    (domainCheck.allowed <=>
       /\ ~\E k \in 1..Len(domains.blocklist) : EntryMatches(url, domains.blocklist[k])
       /\ \/ Len(domains.allowlist) = 0
          \/ \E k \in 1..Len(domains.allowlist) : EntryMatches(url, domains.allowlist[k]))

\* C15: a navigate_and_read call whose url isDomainAllowed refuses ends at
\* once with an error and no envelope is handed to the socket for it.
BlockedUrlNotRelayed ==
  [][\A i \in Inv :
       (/\ pc[i] = "idle" /\ pc'[i] # "idle"
        /\ call'[i].name = "navigate_and_read"
        /\ ~isDomainAllowed(call'[i].url, domains).allowed)
         => /\ pc'[i] = "done"
            /\ result'[i].isError
            /\ outbox' = outbox
    ]_vars

\* An upgrade request that presents the configured token, from an extension
\* origin, from localhost or with no Origin header.
Authorized(req) ==
  /\ req.token = "authToken"
  /\ req.origin \in {"chrome-extension://", "http://localhost", "none"}

\* C16: a connection whose upgrade request is not authorized never becomes
\* the active extension socket and is not left open.
RejectsUnauthorized ==
  [][\A s \in Sock, req \in Handshakes :
       (Connection(s, req) /\ ~Authorized(req))
         => (extensionSocket' # s /\ readyState'[s] # "OPEN")
    ]_vars

\* C17: an invocation that has returned its result has appended exactly one
\* audit log entry.
OneAuditEntry ==
  \A i \in Inv : pc[i] = "done" => Len(audit[i]) = 1

\* C18: once every byte the extension wrote has been delivered, the bridge
\* has decoded the messages that were posted, in order, however the bytes
\* were cut into chunks (a cut at every frame end gives exactly these).
ChunkBoundaryInvariance ==
  stdin = <<>> => received = posted

\* C19: the messages handed to the socket, followed by those still queued,
\* are the messages read from the extension, in the order read; and nothing
\* is queued while the socket is open.
RelayInOrder ==
  /\ LET texts == sent \o messageQueue
     IN [k \in 1..Len(texts) |-> JSONparse(texts[k])] = received
  /\ ws = "OPEN" => messageQueue = <<>>

\* A message was sent, the connection was lost, and while the bridge is
\* reconnecting a second message waits in the queue.
QueuedWitness ==
  /\ Len(sent) >= 1
  /\ Len(messageQueue) >= 1
  /\ ws = "CONNECTING"
  /\ reconnectAttempts["bridge"] >= 1

\* The attempts of a leg are used up.
Exhausted(leg) == reconnectAttempts[leg] >= maxReconnectAttempts(leg)

\* The bridge's supervisor has stopped: no socket, no timer, attempts used up.
BridgeStopped ==
  /\ ws = "null"
  /\ ~reconnectTimer["bridge"]
  /\ Exhausted("bridge")

\* C20: on each leg, once maxReconnectAttempts attempts have been counted
\* with no successful connection since, the supervisor stops.  Extension: no
\* reconnect timer is pending while the attempts are used up, and the
\* disconnect that finds them used up sets connectionStatus to 'failed'.
\* Bridge: a timer is armed only by a step that starts with attempts left,
\* the close that finds them used up arms none, and from then on no step
\* of the bridge creates a socket or a timer.
SupervisorStops ==
  /\ [](reconnectTimer["extension"] => ~Exhausted("extension"))
  /\ [][(PortDisconnect /\ Exhausted("extension"))
          => (connectionStatus' = "failed" /\ ~reconnectTimer'["extension"])]_vars
  /\ [][(~reconnectTimer["bridge"] /\ reconnectTimer'["bridge"]) => ~Exhausted("bridge")]_vars
  /\ [][(WsClose /\ Exhausted("bridge")) => BridgeStopped']_vars
  /\ [][BridgeStopped => BridgeStopped']_vars

\* Both legs have stopped after using up their attempts.
StoppedWitness ==
  /\ BridgeStopped
  /\ reconnectAttempts["bridge"] = MaxBridgeAttempts
  /\ ~port /\ ~reconnectTimer["extension"] /\ connectionStatus = "failed"
  /\ reconnectAttempts["extension"] = MaxExtAttempts

\* The delay of the k-th consecutive retry under the exponential law.
ExponentialDelay(k, base, cap) == Min(base * Pow2(k - 1), cap)

\* The largest delay the bridge ever waits.
BridgeMaxDelay == Backoff("bridge", MaxBridgeAttempts)

\* C21: when the extension arms its reconnect timer, the delay is
\* min(reconnectBaseDelay * 2^(k-1), reconnectMaxDelay), k - 1 being the
\* connections its timer has started since the native host last reported
\* 'connected' (so the first delay after a successful connection is the base).
ExtensionBackoff ==
  [][(PortDisconnect /\ reconnectTimer'["extension"])
       => delay'["extension"] =
            ExponentialDelay(retries["extension"] + 1, reconnectBaseDelay, reconnectMaxDelay)
    ]_vars

\* C22: when the bridge arms its reconnect timer, the delay is
\* min(reconnectDelay * 2^(k-1), cap), k - 1 being the connections its timer
\* has started since its socket last opened.
BridgeBackoff ==
  [][(WsClose /\ reconnectTimer'["bridge"])
       => delay'["bridge"] =
            ExponentialDelay(retries["bridge"] + 1, reconnectDelay, BridgeMaxDelay)
    ]_vars

\* C23: while connectionStatus is 'failed' there is no port and no pending
\* reconnect timer, so no timer or port event can occur; every step other
\* than a popup command leaves the status 'failed' and opens no port; and
\* the popup's 'connect' opens a port and sets the status to 'connecting'.
FailedIsTerminal ==
  /\ [](connectionStatus = "failed" => (~port /\ ~reconnectTimer["extension"]))
  /\ [][(connectionStatus = "failed" /\ ~\E type \in {"connect", "disconnect"} : PopupMessage(type))
          => (connectionStatus' = "failed" /\ ~port')]_vars
  /\ [][(connectionStatus = "failed" /\ PopupMessage("connect"))
          => (port' /\ connectionStatus' = "connecting")]_vars

\* The extension has failed after twenty retries while the bridge's socket
\* to the gateway is open.
FailedWitness ==
  /\ connectionStatus = "failed"
  /\ retries["extension"] = MaxExtAttempts
  /\ ws = "OPEN"

\* C24: once a connect attempt has opened a port, no reconnect timer is
\* pending: connect() has cancelled the one that was armed.
TimerCancelledOnConnect ==
  port => ~reconnectTimer["extension"]

\* C25: a security_config update changes the fields it names and no other:
\* each nested object keeps its fields, those the update does not name with
\* their previous values; and when the call returns, the config file holds
\* the config that is in memory.
MergesAndPersists ==
  /\ [][\A i \in Inv :
          (pc[i] = "idle" /\ pc'[i] = "mkdir")
            => LET u == call'[i].update[1]
                   named(k) == DOMAIN Nested(u, k)
               IN /\ DOMAIN domains' = DOMAIN domains
                  /\ \A f \in DOMAIN domains :
                       domains'[f] = IF f \in named("domains") THEN u.domains[f] ELSE domains[f]
                  /\ maxActionsPerMinute' =
                       IF "maxActionsPerMinute" \in named("rateLimit")
                         THEN u.rateLimit.maxActionsPerMinute ELSE maxActionsPerMinute
                  /\ emergencyStop' =
                       IF "emergencyStop" \in DOMAIN u THEN u.emergencyStop ELSE emergencyStop
      ]_vars
  /\ [][\A i \in Inv :
          (pc[i] = "write" /\ pc'[i] = "done") => configFile' = securityConfig'
      ]_vars

PingResolvesWithPong ==
  \A i \in Inv : pc[i] = "done" => result[i] = OkResult(PongData)

\* C28: round trip of one frame.  For every message m, writeNativeMessage
\* writes four bytes that are the length of the JSON text of m, least
\* significant byte first, followed by exactly that text; and once all bytes of
\* a single frame have been delivered to readNativeMessage, in whatever
\* chunks, the bridge has read exactly m.
FrameRoundTrip ==
  /\ \A m \in Posts :
       LET t == JSONstringify(m)
           f == writeNativeMessage(m)
       IN /\ Len(f) = 4 + Len(t)
          /\ f[1] + 256 * f[2] + 65536 * f[3] + 16777216 * f[4] = Len(t)
          /\ SubSeq(f, 5, Len(f)) = t
  /\ (Len(posted) = 1 /\ posted[1] \in Posts /\ stdin = <<>>) => received = posted

\* A frame with a body of two bytes has been written, delivered and read.
RoundTripWitness ==
  /\ posted = <<22>>
  /\ stdin = <<>>
  /\ received = <<22>>

\* A 'data' event with the first k waiting bytes completes a frame whose
\* body is not JSON text.
BadFrameRead(k) ==
  LET d == onData(SubSeq(stdin, 1, k))
  IN /\ stdin' = SubSeq(stdin, k + 1, Len(stdin))
     /\ d.expectedLength # -1
     /\ Len(d.messageBuffer) >= d.expectedLength
     /\ SubSeq(d.messageBuffer, 1, d.expectedLength) \in BadBodies

\* C29: a frame whose body is not valid JSON produces no message: the step
\* that completes it hands nothing to the loop, sends nothing to the gateway
\* and queues nothing, takes no byte beyond those delivered, and leaves the
\* decoder as a new call of readNativeMessage starts, waiting for the length
\* prefix of the next frame.
InvalidFrameSkipped ==
  [][\A k \in 1..Len(stdin) :
       BadFrameRead(k) =>
         /\ received' = received
         /\ sent' = sent
         /\ messageQueue' = messageQueue
         /\ expectedLength' = -1
         /\ lengthBuffer' = <<>>
         /\ messageBuffer' = <<>>]_vars

\* After a frame that was not JSON, the next frame has been read and relayed.
InvalidFrameWitness ==
  /\ posted = <<NoMessage, 22>>
  /\ stdin = <<>>
  /\ received = <<22>>
  /\ sent \o messageQueue = <<JSONstringify(22)>>

\* The window has room at instant t: fewer than maxActionsPerMinute of its
\* timestamps are within the 60 seconds before t.
HasCapacity(ts, t) ==
  Cardinality({k \in 1..Len(ts) : ts[k] >= t - RateWindowMs}) < maxActionsPerMinute

\* Invocation i returns the rate-limit error in this step.
Rejected(i) ==
  /\ pc[i] = "idle"
  /\ pc'[i] = "done"
  /\ result'[i] = ErrorResult(RateLimitMsg)

\* C30: a call rejected as rate limited consumes no slot.  The step that
\* rejects it adds no timestamp to the window, the time of the call least of
\* all, and at every later instant the window has room after the step exactly
\* if it had room before: the rejection does not postpone the moment at which
\* capacity is restored.
RejectionConsumesNoSlot ==
  [][\A i \in Inv :
       Rejected(i) =>
         /\ Len(actionTimestamps') <= Len(actionTimestamps)
         /\ \A k \in 1..Len(actionTimestamps') :
              \E j \in 1..Len(actionTimestamps) : actionTimestamps'[k] = actionTimestamps[j]
         /\ \A h \in 0..(MaxGateTime + 2) :
              HasCapacity(actionTimestamps', now + h * HalfMinuteMs)
                <=> HasCapacity(actionTimestamps, now + h * HalfMinuteMs)
    ]_vars

\* A click was admitted, a click half a minute later was rejected, and a
\* minute and a half after the first the window has room again: it still
\* holds the time of the first click only.
RestoredWitness ==
  /\ \E i, j \in Inv : /\ Admitted(i) /\ call[i].name = "click"
                       /\ call[j].name = "click"
                       /\ result[j] = ErrorResult(RateLimitMsg)
                       /\ startTime[j] = startTime[i] + HalfMinuteMs
                       /\ actionTimestamps = <<startTime[i]>>
                       /\ now = startTime[i] + 3 * HalfMinuteMs
  /\ HasCapacity(actionTimestamps, now)

\* C31: emergency stop is evaluated before the rate limit.  A call of a tool
\* that is not a security tool, entering the handler while emergency stop is
\* active, is reported as emergency-stopped whatever the rate window holds,
\* and the rate limiter is not called for it: the window is left as it was,
\* not even pruned.
StopBeforeRateLimit ==
  [][\A i \in Inv :
       (pc[i] = "idle" /\ pc'[i] # "idle" /\ emergencyStop
          /\ call'[i].name \notin securityTools)
         => /\ pc'[i] = "done"
            /\ result'[i] = ErrorResult(EmergencyMsg)
            /\ actionTimestamps' = actionTimestamps
    ]_vars

\* Emergency stop is active and an earlier call had filled the window when
\* the last call, a click, came in: the click was reported as
\* emergency-stopped and the window still holds the earlier timestamp only.
StopAndLimitWitness ==
  /\ emergencyStop
  /\ maxActionsPerMinute = 1
  /\ \E i \in Inv : /\ i > 1
                    /\ \A j \in Inv : j > i => pc[j] = "idle"
                    /\ call[i].name = "click"
                    /\ result[i] = ErrorResult(EmergencyMsg)
                    /\ actionTimestamps = <<startTime[i - 1]>>
                    /\ ~HasCapacity(actionTimestamps, startTime[i])

\* The texts of the errors the catch block reports: not connected, timed
\* out, the executor's error string or its absence.
CaughtTexts == {NotConnectedMsg, TimeoutMsg, UnknownErrorMsg} \cup Errs

\* C32: with audit logging enabled, an invocation that has ended blocked, by
\* emergency stop or by the rate limit, or in an error of the kinds not
\* connected, timed out, executor error, has appended one audit entry that
\* carries the name of the tool, the arguments of the call and the error text:
\* the reason of the block, or the message of the error returned.  (The reply
\* to a tool name the handler does not know is none of these kinds.)
ErrorsAudited ==
  \A i \in Inv :
    pc[i] = "done" =>
      /\ result[i] = ErrorResult(EmergencyMsg) =>
           audit[i] = <<AuditEntry(call[i].name, Args(call[i]), "blocked",
                                   "Emergency stop active")>>
      /\ result[i] = ErrorResult(RateLimitMsg) =>
           audit[i] = <<AuditEntry(call[i].name, Args(call[i]), "blocked",
                                   "Rate limit exceeded")>>
      /\ (result[i].isError /\ result[i].text \in CaughtTexts) =>
           audit[i] = <<AuditEntry(call[i].name, Args(call[i]), "error", result[i].text)>>

\* One click timed out and the next was rejected by the rate limit.
BlockedAndErrorWitness ==
  \E i, j \in Inv : /\ pc[i] = "done" /\ pc[j] = "done"
                    /\ result[i] = ErrorResult(TimeoutMsg)
                    /\ result[j] = ErrorResult(RateLimitMsg)
                    /\ audit[i] # <<>> /\ audit[j] # <<>>

\* How many requests with id x the extension has received, how many of them
\* are still being handled, and how many responses with id x it has posted.
Received(x) == Cardinality({k \in 1..Len(requests) : requests[k].id = x})
InHand(x) == Cardinality({k \in handling : requests[k].id = x})
Responses(x) == Cardinality({k \in 1..Len(posted) : posted[k] = x})

\* C33: the extension posts at most one response for every request envelope
\* it receives, with the id of that request, whatever the type (a type it
\* does not know and an operation that throws included): the responses posted
\* with an id, plus the requests with that id still being handled, are never
\* more than the requests received with it, and no response has an id that no
\* request had.  When the handling of a request ends, exactly one response
\* with its id is posted if the port is there, and none otherwise.
OneResponsePerRequest ==
  /\ [](\A k \in 1..Len(posted) :
          LET x == posted[k]
          IN /\ \E j \in 1..Len(requests) : requests[j].id = x
             /\ Responses(x) + InHand(x) <= Received(x))
  /\ [][/\ \A k \in 1..MaxPosts :
             (k \in handling /\ k \notin handling')
               => posted' = IF port THEN Append(posted, requests[k].id) ELSE posted
        /\ \A m \in Envelopes :
             (requests' = Append(requests, m) /\ m.type \in Immediate)
               => posted' = Append(posted, m.id)
       ]_vars

\* Two requests with one id were received, a click and one of a type the
\* extension does not know; the port was closed when the handling of the click
\* ended, so only the other got its response, and the port is open again.
ResponsesWitness ==
  /\ handling = {}
  /\ port
  /\ \E x \in Ids :
       /\ Received(x) = 2
       /\ Responses(x) = 1
       /\ \E j, k \in 1..Len(requests) :
            /\ requests[j] = [id |-> x, type |-> "click"]
            /\ requests[k] = [id |-> x, type |-> "unknown_type"]

\* C34: the close event of a superseded socket never disconnects the current
\* one.  A step in which the connection of socket s ends leaves extensionSocket
\* as it was when s is not the current socket, and sets it to null when s is.
SupersededCloseIsHarmless ==
  [][\A s \in Sock :
       (readyState[s] \in {"OPEN", "CLOSING"} /\ readyState'[s] = "CLOSED")
         => extensionSocket' = IF extensionSocket = s THEN 0 ELSE extensionSocket
    ]_vars

\* The first socket was replaced by the second and has closed since; the
\* second is still the current socket, and open.
SupersededClosedWitness ==
  /\ readyState[1] = "CLOSED"
  /\ extensionSocket = 2
  /\ readyState[2] = "OPEN"

\* C35: between callbacks, every id in pendingRequests has exactly one armed
\* timeout timer, and every armed timeout timer holds an id that is in
\* pendingRequests.
EntriesAndTimersPaired ==
  /\ \A x \in Ids :
       pendingRequests[x] # 0
         => Cardinality({i \in Inv : timer[i] /\ reqId[i] = x}) = 1
  /\ \A i \in Inv : timer[i] => pendingRequests[reqId[i]] # 0

\* C36: no leg ever has two connections at once.  Whatever the order of
\* manual connects and disconnects, reconnect timers, failed attempts and
\* close events, the extension has at most one native-messaging port open and
\* the bridge at most one WebSocket that has not closed; the port variable
\* and ws refer to it.
OneConnectionPerLeg ==
  /\ openPorts = IF port THEN 1 ELSE 0
  /\ liveSockets = IF ws = "null" THEN 0 ELSE 1

\* The extension's reconnect timer has fired while a port opened by a manual
\* connect was there, and the bridge is connected again after two failed
\* attempts: each leg has its one connection.
StaleTimerWitness ==
  /\ port
  /\ openPorts = 1
  /\ retries["extension"] < reconnectAttempts["extension"]
  /\ ws = "CONNECTING"
  /\ liveSockets = 1
  /\ reconnectAttempts["bridge"] >= 2

\* The extension as a manual disconnect leaves it: no port, no reconnect
\* timer pending, status 'disconnected'.
Parked ==
  /\ ~port
  /\ openPorts = 0
  /\ ~reconnectTimer["extension"]
  /\ connectionStatus = "disconnected"

StopSurvivesLoad ==
  [][(emergencyStop /\ ~emergencyStop')
       => \E i \in Inv : /\ pc[i] = "idle" /\ pc'[i] # "idle"
                         /\ call'[i].name = "emergency_stop"
                         /\ ~call'[i].stop
    ]_vars

\* C39: when the bridge has used up its reconnect attempts and given up, the
\* extension's connectionStatus leaves 'reconnecting'.  Once the bridge has
\* stopped and the extension has handled everything the bridge wrote, no
\* further step is possible, so the status the extension has then is the one
\* it keeps: it is not 'reconnecting'.
StatusLeavesReconnecting ==
  (BridgeStopped /\ notices = <<>>) => connectionStatus # "reconnecting"

====
